---- MODULE Spec2Model ----
(***************************************************************************)
(* A model of wikiwords.py: the tokenizer (parse_words), the extractors    *)
(* (html_words, body_words, paragraph_words), the frequency model          *)
(* (Counter, normalize), the distance (page_distance), the download loop   *)
(* (get_pages) and the commands snap_judgement / judge / save_frequencies. *)
(*                                                                         *)
(* Representation choices:                                                 *)
(*  - a text is a sequence of one-character strings;                       *)
(*  - a Counter is a record [cnt, den]: cnt is a function from its key set *)
(*    to integers and every value is the rational cnt[w] / den (den = 1    *)
(*    for counts, den = total for the fractions normalize builds);         *)
(*  - math.sqrt(s) is represented by its argument s, kept as the rational  *)
(*    [num, den]; sqrt is increasing, so comparing distances is comparing  *)
(*    these arguments (IEEE rounding is not modelled);                     *)
(*  - a parsed document (the BeautifulSoup tree) is the sequence of its    *)
(*    text fragments in document order, the interval of fragments under    *)
(*    <body> (or no body) and the interval of fragments under each <p>.    *)
(***************************************************************************)
EXTENDS Integers, Sequences, FiniteSets, TLC

VARIABLES
  text, tokens, tpc,                     \* tokenizer run
  doc, xout, xres, xpc,                  \* extractor run
  da, db, dres, dpc,                     \* page_distance run
  cmd, args, page_file, wait, pages,     \* command run
  pc, idx, fractions, log, yielded, result, files

tokVars  == <<text, tokens, tpc>>
extVars  == <<doc, xout, xres, xpc>>
distVars == <<da, db, dres, dpc>>
cmdVars  == <<cmd, args, page_file, wait, pages, pc, idx, fractions, log, yielded,
              result, files>>
vars     == <<tokVars, extVars, distVars, cmdVars>>

(***************************************************************************)
(* Bounds of the model.                                                    *)
(***************************************************************************)
MaxLen == 4
MaxFrags == 3
MaxP == 2
MaxCount == 2
MaxTokens == 2
MaxSupplied == 4

(***************************************************************************)
(* Characters.                                                             *)
(***************************************************************************)
Lowercase == {"a", "b", "c", "d", "e", "i", "k", "l", "n", "o", "p", "r", "s", "t", "w"}
LowerOf   == [c \in {"A", "B", "C", "D", "O", "R", "W"} |->
                CASE c = "A" -> "a" [] c = "B" -> "b" [] c = "C" -> "c"
                  [] c = "D" -> "d" [] c = "O" -> "o" [] c = "R" -> "r"
                  [] c = "W" -> "w"]
Uppercase == DOMAIN LowerOf
Digits    == {"1", "2"}
Apostrophe == "'"

\* \w under re.UNICODE: letters, digits and the underscore.
IsWordChar(c) == c \in Lowercase \cup Uppercase \cup Digits \cup {"_"}

\* The characters the checked texts are drawn from.
Alphabet == {"a", "B", "1", "_", "'", " "}

RECURSIVE SeqsUpTo(_, _)
SeqsUpTo(S, n) ==
  IF n = 0 THEN {<<>>}
  ELSE LET shorter == SeqsUpTo(S, n - 1)
       IN shorter \cup {Append(s, c) : s \in shorter, c \in S}

Texts == SeqsUpTo(Alphabet, MaxLen)

(***************************************************************************)
(* The tokenizer.                                                          *)
(***************************************************************************)
\* re.sub("'", '', text)
sub_apostrophe(t) == SelectSeq(t, LAMBDA c : c # Apostrophe)

\* str.lower()
lower(t) == [i \in 1..Len(t) |-> IF t[i] \in Uppercase THEN LowerOf[t[i]] ELSE t[i]]

\* re.finditer('\w+', text): the scan from position i with the run cur open.
RECURSIVE finditer(_, _, _)
finditer(t, i, cur) ==
  IF i > Len(t)
    THEN (IF cur = <<>> THEN <<>> ELSE <<cur>>)
    ELSE IF IsWordChar(t[i])
      THEN finditer(t, i + 1, Append(cur, t[i]))
      ELSE (IF cur = <<>> THEN <<>> ELSE <<cur>>) \o finditer(t, i + 1, <<>>)

\* The undecorated parse_words: every match of \w+, left to right.
raw_parse_words(t) == finditer(t, 1, <<>>)

preprocess_keep_apostrophe(t) == raw_parse_words(lower(t))

\* The decorator's wrapper: strip apostrophes, lowercase, then parse.
preprocess(t) == raw_parse_words(lower(sub_apostrophe(t)))

\* parse_words as the module exports it (decorated).
parse_words(t) == preprocess(t)

\* words_from_strings: the words of each string, chained in order.
RECURSIVE words_from_strings(_)
words_from_strings(strings) ==
  IF strings = <<>> THEN <<>>
  ELSE parse_words(Head(strings)) \o words_from_strings(Tail(strings))

(***************************************************************************)
(* Tokenizer run: a text is chosen, parse_words is applied to it.          *)
(***************************************************************************)
TokIdle  == text = <<>> /\ tokens = <<>> /\ tpc = "off"
ExtIdle  == doc = <<>> /\ xout = <<>> /\ xres = "none" /\ xpc = "off"
DistIdle == da = <<>> /\ db = <<>> /\ dres = <<>> /\ dpc = "off"
CmdIdle  == /\ cmd = "none" /\ args = <<>> /\ page_file = <<>> /\ wait = 0
            /\ pages = <<>> /\ pc = "off"
            /\ idx = 0 /\ fractions = <<>> /\ log = <<>> /\ yielded = <<>>
            /\ result = <<>> /\ files = <<>>

InitTok ==
  /\ text \in Texts
  /\ tokens = <<>>
  /\ tpc = "start"
  /\ ExtIdle /\ DistIdle /\ CmdIdle

ParseWords ==
  /\ tpc = "start"
  /\ tokens' = parse_words(text)
  /\ tpc' = "done"
  /\ UNCHANGED <<text, extVars, distVars, cmdVars>>

NextTok == ParseWords

SpecTok == InitTok /\ [][NextTok]_vars

(***************************************************************************)
(* C6. parse_words removes every apostrophe and lowercases the text, then  *)
(* emits each maximal run of word characters of the result as one token,   *)
(* left to right, duplicates kept: the k-th token is the k-th maximal run  *)
(* of the normalised text; no token is empty or holds an uppercase letter, *)
(* an apostrophe or a delimiter; a text with no word character gives the   *)
(* empty sequence; "Don't stop" gives ["dont", "stop"], "Word WORD" gives  *)
(* ["word", "word"] and "" gives [].                                       *)
(***************************************************************************)
RECURSIVE Normalised(_)
Normalised(t) ==
  IF t = <<>> THEN <<>>
  ELSE LET c == Head(t)
       IN IF c = Apostrophe THEN Normalised(Tail(t))
          ELSE <<IF c \in Uppercase THEN LowerOf[c] ELSE c>> \o Normalised(Tail(t))

\* The maximal runs of word characters of p, as <<first, last>> positions.
MaximalRuns(p) ==
  {r \in (1..Len(p)) \X (1..Len(p)) :
     /\ r[1] <= r[2]
     /\ \A k \in r[1]..r[2] : IsWordChar(p[k])
     /\ (r[1] = 1 \/ ~IsWordChar(p[r[1] - 1]))
     /\ (r[2] = Len(p) \/ ~IsWordChar(p[r[2] + 1]))}

KthRun(p, k) ==
  CHOOSE r \in MaximalRuns(p) :
    Cardinality({q \in MaximalRuns(p) : q[1] < r[1]}) = k - 1

DontStop == <<"D", "o", "n", "'", "t", " ", "s", "t", "o", "p">>
WordWORD == <<"W", "o", "r", "d", " ", "W", "O", "R", "D">>

C6_TokenizerRuns ==
  /\ tpc = "done" =>
       LET p == Normalised(text)
       IN /\ Len(tokens) = Cardinality(MaximalRuns(p))
          /\ \A k \in 1..Len(tokens) :
               /\ tokens[k] = SubSeq(p, KthRun(p, k)[1], KthRun(p, k)[2])
               /\ tokens[k] # <<>>
               /\ \A j \in 1..Len(tokens[k]) :
                    /\ IsWordChar(tokens[k][j])
                    /\ tokens[k][j] \notin Uppercase
                    /\ tokens[k][j] # Apostrophe
          /\ (\A i \in 1..Len(text) : ~IsWordChar(text[i])) => tokens = <<>>
  /\ parse_words(DontStop) = << <<"d", "o", "n", "t">>, <<"s", "t", "o", "p">> >>
  /\ parse_words(WordWORD) = << <<"w", "o", "r", "d">>, <<"w", "o", "r", "d">> >>
  /\ parse_words(<<>>) = <<>>

\* A text with an apostrophe between two word characters and an uppercase
\* letter has been tokenized, and the apostrophe's neighbours share a token.
C6_Witness ==
  /\ tpc = "done"
  /\ \E i \in 2..(Len(text) - 1) :
       /\ text[i] = Apostrophe
       /\ text[i - 1] \in Uppercase
       /\ IsWordChar(text[i + 1])
  /\ \E i \in 1..Len(text) : text[i] = " "
  /\ Len(tokens) = 1 /\ Len(tokens[1]) >= 2

(***************************************************************************)
(* Parsed documents.  BeautifulSoup(html, 'lxml') is outside the program;  *)
(* what the extractors read of its tree is: .strings (every text fragment, *)
(* document order), .body (an element or None), find_all('p') (every <p>   *)
(* element, nested ones included, in document order) and an element's      *)
(* .strings (the fragments below it).  An element is the interval          *)
(* <<first, last>> of the fragments below it; elements of a tree are       *)
(* disjoint or nested.  <p> elements with no text are left out: they       *)
(* contribute no string.                                                   *)
(***************************************************************************)
FragTexts == { <<"a">>, <<"b", " ", "A">> }
NoBody == <<>>

Intervals(lo, hi) == {r \in (lo..hi) \X (lo..hi) : r[1] <= r[2]}

Inside(r, s) == s[1] <= r[1] /\ r[2] <= s[2]

\* find_all('p') order (document order of the start tags) of a tree's <p>s.
IsParagraphList(ps) ==
  \A i, j \in 1..Len(ps) :
    i < j => \/ ps[i][2] < ps[j][1]
             \/ Inside(ps[j], ps[i])

Bodies(n) == {NoBody} \cup {r \in (1..(n + 1)) \X (0..n) : r[1] <= r[2] + 1}

\* The <p> elements of a document lxml builds lie in its body.
ParagraphLists(b) ==
  IF b = NoBody THEN {<<>>}
  ELSE {ps \in SeqsUpTo(Intervals(b[1], b[2]), MaxP) : IsParagraphList(ps)}

Docs ==
  UNION { UNION { { [frags |-> f, body |-> b, ps |-> q] :
                      f \in [1..n -> FragTexts], q \in ParagraphLists(b) }
                  : b \in Bodies(n) }
          : n \in 0..MaxFrags }

\* element.strings
strings(d, r) == SubSeq(d.frags, r[1], r[2])

html_words(d) ==
  [res |-> "ok", words |-> words_from_strings(d.frags)]

body_words_or_empty(d) ==
  [res |-> "ok",
   words |-> IF d.body = NoBody THEN <<>>
             ELSE words_from_strings(strings(d, d.body))]

\* soup.body is None without a body element, and None.strings raises.
body_words(d) ==
  IF d.body = NoBody
    THEN [res |-> "AttributeError", words |-> <<>>]
    ELSE [res |-> "ok", words |-> words_from_strings(strings(d, d.body))]

RECURSIVE paragraphs_words(_, _)
paragraphs_words(d, ps) ==
  IF ps = <<>> THEN <<>>
  ELSE words_from_strings(strings(d, Head(ps))) \o paragraphs_words(d, Tail(ps))

paragraph_words(d) ==
  [res |-> "ok", words |-> paragraphs_words(d, d.ps)]

(***************************************************************************)
(* Extractor run: a document is chosen and one extractor consumes it.      *)
(***************************************************************************)
InitExt ==
  /\ doc \in Docs
  /\ xout = <<>> /\ xres = "none" /\ xpc = "start"
  /\ TokIdle /\ DistIdle /\ CmdIdle

Extract(name, r) ==
  /\ xpc = "start"
  /\ xpc' = name
  /\ xres' = r.res
  /\ xout' = r.words
  /\ UNCHANGED <<doc, tokVars, distVars, cmdVars>>

HtmlWords == Extract("html_words", html_words(doc))
BodyWords == Extract("body_words", body_words(doc))
ParagraphWords == Extract("paragraph_words", paragraph_words(doc))

NextExt == HtmlWords \/ BodyWords \/ ParagraphWords

SpecExt == InitExt /\ [][NextExt]_vars

(***************************************************************************)
(* The frequency model.                                                    *)
(***************************************************************************)
Range(s) == {s[i] : i \in 1..Len(s)}

\* Counter(iterable): every element's number of occurrences, as counts.
Counter(ws) ==
  [cnt |-> [w \in Range(ws) |-> Cardinality({i \in 1..Len(ws) : ws[i] = w})],
   den |-> 1]

(***************************************************************************)
(* C7. body_words on a document with no body element fails: the error      *)
(* reaches the consumer and no token sequence, empty or partial, is        *)
(* produced in its place.  (The spec's StructureError is Python's          *)
(* AttributeError here: None has no attribute 'strings'.)                  *)
(***************************************************************************)
StructureErrors == {"AttributeError"}

C7_BodyScopeFails ==
  (xpc = "body_words" /\ doc.body = NoBody)
    => (xres \in StructureErrors /\ xres # "ok" /\ xout = <<>>)

\* body_words has run on a document that has text but no body element.
C7_Witness ==
  /\ xpc = "body_words"
  /\ doc.body = NoBody
  /\ Len(doc.frags) >= 1
  /\ xres = "AttributeError"

(***************************************************************************)
(* C8. paragraph_words yields the concatenation, in document order, of the *)
(* tokens of the fragments that lie inside a paragraph element, nothing    *)
(* from outside one; counting it gives every word's number of occurrences  *)
(* inside paragraphs; no paragraph gives the empty sequence, no error.     *)
(***************************************************************************)
InParagraph(d, i) == \E k \in 1..Len(d.ps) : d.ps[k][1] <= i /\ i <= d.ps[k][2]

RECURSIVE ParagraphTokens(_, _)
ParagraphTokens(d, i) ==
  IF i > Len(d.frags) THEN <<>>
  ELSE (IF InParagraph(d, i) THEN parse_words(d.frags[i]) ELSE <<>>)
         \o ParagraphTokens(d, i + 1)

CatsLikeCats == <<"C", "a", "t", "s", " ", "l", "i", "k", "e", " ", "c", "a", "t", "s">>
CatsDoc == [frags |-> <<CatsLikeCats>>, body |-> <<1, 1>>, ps |-> << <<1, 1>> >>]
cats == <<"c", "a", "t", "s">>
like == <<"l", "i", "k", "e">>

C8_ParagraphScope ==
  /\ xpc = "paragraph_words" =>
       /\ xres = "ok"
       /\ xout = ParagraphTokens(doc, 1)
       /\ Counter(xout) = Counter(ParagraphTokens(doc, 1))
       /\ doc.ps = <<>> => xout = <<>>
  /\ paragraph_words(CatsDoc).words = <<cats, like, cats>>
  /\ Counter(paragraph_words(CatsDoc).words).cnt = (cats :> 2) @@ (like :> 1)

(***************************************************************************)
(* The distance.                                                           *)
(***************************************************************************)
\* The words profiles are made of in the distance and command runs.
Words == {"x", "y"}

Rat(n, d) == [num |-> n, den |-> d]
LtQ(a, b) == a.num * b.den < b.num * a.den
LeqQ(a, b) == a.num * b.den <= b.num * a.den

CounterGet_inserting(c, w) ==
  [value |-> IF w \in DOMAIN c.cnt THEN c.cnt[w] ELSE 0,
   counter |-> IF w \in DOMAIN c.cnt THEN c
               ELSE [c EXCEPT !.cnt = (w :> 0) @@ c.cnt]]

\* f[word] on a Counter: a missing key reads as 0 and is not stored.
CounterGet(c, w) ==
  [value |-> IF w \in DOMAIN c.cnt THEN c.cnt[w] ELSE 0,
   counter |-> c]

\* sum(d * d for d in diffs) over `words`, with the two Counters as the
\* lookups leave them; each difference is taken over the common
\* denominator f1.den * f2.den.
RECURSIVE sum_squares(_, _, _)
sum_squares(f1, f2, words) ==
  IF words = {} THEN [sum |-> 0, f1 |-> f1, f2 |-> f2]
  ELSE LET w == CHOOSE x \in words : TRUE
           g1 == CounterGet(f1, w)
           g2 == CounterGet(f2, w)
           d == g1.value * f2.den - g2.value * f1.den
           rest == sum_squares(g1.counter, g2.counter, words \ {w})
       IN [sum |-> d * d + rest.sum, f1 |-> rest.f1, f2 |-> rest.f2]

page_distance_first_vocabulary(f1, f2) ==
  LET r == sum_squares(f1, f2, DOMAIN f1.cnt)
  IN [sq |-> Rat(r.sum, (f1.den * f2.den) * (f1.den * f2.den)),
      f1 |-> r.f1, f2 |-> r.f2]

\* page_distance: sq is the argument of math.sqrt.
page_distance(f1, f2) ==
  LET words == DOMAIN f1.cnt \cup DOMAIN f2.cnt
      r == sum_squares(f1, f2, words)
  IN [sq |-> Rat(r.sum, (f1.den * f2.den) * (f1.den * f2.den)),
      f1 |-> r.f1, f2 |-> r.f2]

(***************************************************************************)
(* Distance run: two Counters of counts are chosen (a key may hold 0) and  *)
(* page_distance is applied to them.                                       *)
(***************************************************************************)
CountCounters ==
  UNION { {[cnt |-> c, den |-> 1] : c \in [K -> 0..MaxCount]} : K \in SUBSET Words }

InitDist ==
  /\ da \in CountCounters /\ db \in CountCounters
  /\ dres = <<>> /\ dpc = "start"
  /\ TokIdle /\ ExtIdle /\ CmdIdle

PageDistance ==
  /\ dpc = "start"
  /\ LET r == page_distance(da, db)
     IN dres' = r.sq /\ da' = r.f1 /\ db' = r.f2
  /\ dpc' = "done"
  /\ UNCHANGED <<tokVars, extVars, cmdVars>>

NextDist == PageDistance

SpecDist == InitDist /\ [][NextDist]_vars

(***************************************************************************)
(* C2. page_distance(a, b) is the square root of the sum, over every word  *)
(* of either vocabulary counted once, of (a[w] - b[w])^2, a missing word   *)
(* being 0: the argument of the square root is that sum taken over all     *)
(* words; two empty distributions are at 0, an empty one and b at b's      *)
(* Euclidean norm, {x: 1} and {y: 1} at sqrt(2).                           *)
(***************************************************************************)
ValueOf(c, w) == IF w \in DOMAIN c.cnt THEN c.cnt[w] ELSE 0

RECURSIVE SquaredDifferenceOver(_, _, _)
SquaredDifferenceOver(a, b, S) ==
  IF S = {} THEN 0
  ELSE LET w == CHOOSE x \in S : TRUE
       IN (ValueOf(a, w) - ValueOf(b, w)) * (ValueOf(a, w) - ValueOf(b, w))
            + SquaredDifferenceOver(a, b, S \ {w})

SquaredDifference(a, b) == SquaredDifferenceOver(a, b, Words)

SquaredNorm(a) == SquaredDifference(a, [cnt |-> <<>>, den |-> 1])

EmptyCounter == [cnt |-> <<>>, den |-> 1]
OnlyX == [cnt |-> ("x" :> 1), den |-> 1]
OnlyY == [cnt |-> ("y" :> 1), den |-> 1]

C2_EuclideanOverUnion ==
  /\ dpc = "done" =>
       /\ dres = Rat(SquaredDifference(da, db), 1)
       /\ dres.num >= 0
       /\ (DOMAIN da.cnt = {} /\ DOMAIN db.cnt = {}) => dres.num = 0
       /\ DOMAIN da.cnt = {} => dres.num = SquaredNorm(db)
       /\ DOMAIN db.cnt = {} => dres.num = SquaredNorm(da)
  /\ page_distance(OnlyX, OnlyY).sq = Rat(2, 1)
  /\ page_distance(EmptyCounter, EmptyCounter).sq = Rat(0, 1)

\* The distance of two distributions with different vocabularies that
\* share a word has been computed.
C2_Witness ==
  /\ dpc = "done"
  /\ DOMAIN da.cnt = {"x"} /\ DOMAIN db.cnt = {"x", "y"}
  /\ da.cnt["x"] = 2 /\ db.cnt["x"] = 1 /\ db.cnt["y"] = 2
  /\ dres = Rat(5, 1)

(***************************************************************************)
(* The commands.                                                           *)
(*                                                                         *)
(* A downloaded page is represented by the words the chosen parser yields  *)
(* from it (the parsers are modelled above); get_page returns such a       *)
(* content or None.  An optional list (pages, page_file) is the record     *)
(* [none, list].  page_file's lines are taken as already stripped names.   *)
(***************************************************************************)
PageIds == {"A", "B", "C"}
Waits == {1, 2}
Types == {"count", "fraction"}

None == [none |-> TRUE, list |-> <<>>]
Some(l) == [none |-> FALSE, list |-> l]

Contents == SeqsUpTo(Words, MaxTokens)
Absent == [ok |-> FALSE, words |-> <<>>]
\* get_page: the content for status 200, None otherwise.
get_page == {Absent} \cup {[ok |-> TRUE, words |-> c] : c \in Contents}

Error(type) == [kind |-> "error", type |-> type]
NoResult == [kind |-> "none"]

Sum(c) ==
  LET RECURSIVE S(_)
      S(K) == IF K = {} THEN 0
              ELSE LET w == CHOOSE x \in K : TRUE IN c.cnt[w] + S(K \ {w})
  IN S(DOMAIN c.cnt)

normalize_dividing_first(word_count) ==
  LET total == Sum(word_count)
  IN IF total = 0 THEN [res |-> "ZeroDivisionError", counter |-> word_count]
     ELSE [res |-> "ok", counter |-> [cnt |-> word_count.cnt, den |-> total]]

\* normalize: count / total for every entry; the division is evaluated once
\* per entry, so it raises only when there is an entry and the total is 0.
normalize(word_count) ==
  LET total == Sum(word_count)
  IN IF DOMAIN word_count.cnt = {} THEN [res |-> "ok", counter |-> [cnt |-> <<>>, den |-> 1]]
     ELSE IF total = 0 THEN [res |-> "ZeroDivisionError", counter |-> word_count]
     ELSE [res |-> "ok", counter |-> [cnt |-> word_count.cnt, den |-> total]]

closer_idx_last_on_tie(distances) ==
  1 + (IF LeqQ(distances[2], distances[1]) THEN 1 ELSE 0)

\* 1 + min([0, 1], key=lambda i: distances[i]): min keeps the first of
\* equal keys.
closer_idx(distances) ==
  1 + (IF LtQ(distances[2], distances[1]) THEN 1 ELSE 0)

Min(a, b) == IF a <= b THEN a ELSE b

\* judge: the printed judgement or the exception, and the frequencies
\* mapping as the call leaves it.  Unpacking three targets reads at most
\* four items; a missing key raises before the length is known.
judge(frequencies, ps) ==
  LET n == Len(ps)
      missing == {i \in 1..Min(n, 4) : ps[i] \notin DOMAIN frequencies}
  IN IF missing # {} THEN [out |-> Error("KeyError"), frequencies |-> frequencies]
     ELSE IF n # 3 THEN [out |-> Error("ValueError"), frequencies |-> frequencies]
     ELSE LET r1 == page_distance(frequencies[ps[1]], frequencies[ps[2]])
              fr1 == [[frequencies EXCEPT ![ps[1]] = r1.f1] EXCEPT ![ps[2]] = r1.f2]
              r2 == page_distance(fr1[ps[1]], fr1[ps[3]])
              fr2 == [[fr1 EXCEPT ![ps[1]] = r2.f1] EXCEPT ![ps[3]] = r2.f2]
              ci == closer_idx(<<r1.sq, r2.sq>>)
              fi == 3 - ci
          IN [out |-> [kind |-> "judgement", anchor |-> ps[1],
                       closer |-> ps[ci + 1], farther |-> ps[fi + 1],
                       ci |-> ci, fi |-> fi],
              frequencies |-> fr2]

\* pages[:3]
Take(l, k) == SubSeq(l, 1, Min(Len(l), k))

\* random.sample(pages, 3): three distinct positions, in any order.
Samples(l) ==
  {<<l[t[1]], l[t[2]], l[t[3]]>> :
     t \in {u \in (1..Len(l)) \X (1..Len(l)) \X (1..Len(l)) :
              u[1] # u[2] /\ u[1] # u[3] /\ u[2] # u[3]}}

PageLists == SeqsUpTo(PageIds, MaxSupplied)

(***************************************************************************)
(* Command run: snap_judgement (with get_pages as its generator and judge  *)
(* at its end) or save_frequencies.                                        *)
(***************************************************************************)
InitJudge ==
  /\ cmd = "judge"
  /\ args = <<>>
  /\ \/ page_file = None /\ pages \in {None} \cup {Some(l) : l \in PageLists}
     \/ pages = None /\ page_file \in {Some(l) : l \in PageLists}
  /\ wait \in Waits
  /\ files = [isdir |-> TRUE, entries |-> <<>>]

InitSave ==
  /\ cmd = "save"
  /\ args \in [page : PageIds, type : Types]
  /\ page_file = None /\ pages = None /\ wait = 0
  /\ files \in [isdir : BOOLEAN, entries : {<<>>}]

Init ==
  /\ InitJudge \/ InitSave
  /\ pc = "start" /\ idx = 0 /\ fractions = <<>> /\ log = <<>>
  /\ yielded = <<>> /\ result = NoResult
  /\ TokIdle /\ ExtIdle /\ DistIdle

Fail(type) == pc' = "done" /\ result' = Error(type)

\* snap_judgement up to its loop, with page_file given.
SnapFromFile ==
  /\ cmd = "judge" /\ pc = "start" /\ ~page_file.none
  /\ page_file' = Some(<<>>)
  /\ IF Len(page_file.list) < 3
       THEN Fail("ValueError") /\ UNCHANGED pages
       ELSE /\ \E smp \in Samples(page_file.list) : pages' = Some(Take(smp, 3))
            /\ pc' = "first" /\ UNCHANGED result
  /\ UNCHANGED <<cmd, args, wait, idx, fractions, log, yielded, files>>
  /\ UNCHANGED <<tokVars, extVars, distVars>>

\* snap_judgement up to its loop, without page_file.
SnapFromPages ==
  /\ cmd = "judge" /\ pc = "start" /\ page_file.none
  /\ IF pages.none
       THEN Fail("TypeError") /\ UNCHANGED pages
       ELSE pages' = Some(Take(pages.list, 3)) /\ pc' = "first" /\ UNCHANGED result
  /\ UNCHANGED <<cmd, args, page_file, wait, idx, fractions, log, yielded, files>>
  /\ UNCHANGED <<tokVars, extVars, distVars>>

\* A StopIteration raised inside a generator ends it (Python 2).
stop_iteration_in_generator == "exhausted"

FetchAndYield_abort_on_absent(page, content, stay) ==
  /\ log' = Append(log, [op |-> "fetch", page |-> page, ok |-> content.ok])
  /\ IF content.ok
       THEN LET nz == normalize(Counter(content.words))
            IN /\ yielded' = Append(yielded, <<page, content.words>>)
               /\ IF nz.res = "ok"
                    THEN /\ fractions' = (page :> nz.counter) @@ fractions
                         /\ pc' = stay /\ UNCHANGED result
                    ELSE Fail(nz.res) /\ UNCHANGED fractions
       ELSE pc' = "judge" /\ UNCHANGED <<yielded, fractions, result>>

\* get_page(page) inside get_pages and, for a content, the yield with the
\* body of snap_judgement's loop:
\*   fractions[page] = normalize(Counter(parse(html)))
FetchAndYield(page, content, stay) ==
  /\ log' = Append(log, [op |-> "fetch", page |-> page, ok |-> content.ok])
  /\ IF content.ok
       THEN LET nz == normalize(Counter(content.words))
            IN /\ yielded' = Append(yielded, <<page, content.words>>)
               /\ IF nz.res = "ok"
                    THEN /\ fractions' = (page :> nz.counter) @@ fractions
                         /\ pc' = stay /\ UNCHANGED result
                    ELSE Fail(nz.res) /\ UNCHANGED fractions
       ELSE pc' = stay /\ UNCHANGED <<yielded, fractions, result>>

\* get_pages up to its for loop: page = next(iterpages) and the first fetch.
GetPagesFirst ==
  /\ pc = "first"
  /\ IF pages.list = <<>>
       THEN /\ IF stop_iteration_in_generator = "exhausted"
                 THEN pc' = "judge" /\ UNCHANGED result
                 ELSE Fail(stop_iteration_in_generator)
            /\ UNCHANGED <<idx, fractions, log, yielded>>
       ELSE /\ \E content \in get_page :
                 FetchAndYield(pages.list[1], content, "loop")
            /\ idx' = 1
  /\ UNCHANGED <<cmd, args, page_file, wait, pages, files>>
  /\ UNCHANGED <<tokVars, extVars, distVars>>

GetPagesSleep_only_after_content ==
  /\ pc = "loop" /\ idx < Len(pages.list)
  /\ log' = IF log[Len(log)].ok THEN Append(log, [op |-> "sleep", seconds |-> wait])
            ELSE log
  /\ pc' = "fetch"
  /\ UNCHANGED <<cmd, args, page_file, wait, pages, idx, fractions, yielded, result, files>>
  /\ UNCHANGED <<tokVars, extVars, distVars>>

\* for page in iterpages: time.sleep(wait)
GetPagesSleep ==
  /\ pc = "loop" /\ idx < Len(pages.list)
  /\ log' = Append(log, [op |-> "sleep", seconds |-> wait])
  /\ pc' = "fetch"
  /\ UNCHANGED <<cmd, args, page_file, wait, pages, idx, fractions, yielded, result, files>>
  /\ UNCHANGED <<tokVars, extVars, distVars>>

\* the loop's content = get_page(page) and its yield
GetPagesFetch ==
  /\ pc = "fetch"
  /\ \E content \in get_page : FetchAndYield(pages.list[idx + 1], content, "loop")
  /\ idx' = idx + 1
  /\ UNCHANGED <<cmd, args, page_file, wait, pages, files>>
  /\ UNCHANGED <<tokVars, extVars, distVars>>

\* iterpages is exhausted: get_pages returns, snap_judgement calls judge.
GetPagesEnd ==
  /\ pc = "loop" /\ idx = Len(pages.list)
  /\ pc' = "judge"
  /\ UNCHANGED <<cmd, args, page_file, wait, pages, idx, fractions, log, yielded,
                 result, files>>
  /\ UNCHANGED <<tokVars, extVars, distVars>>

Judge ==
  /\ pc = "judge"
  /\ LET r == judge(fractions, pages.list)
     IN result' = r.out /\ fractions' = r.frequencies
  /\ pc' = "done"
  /\ UNCHANGED <<cmd, args, page_file, wait, pages, idx, log, yielded, files>>
  /\ UNCHANGED <<tokVars, extVars, distVars>>

\* parse(None): re.sub and BeautifulSoup are handed None; what the library
\* does with it is either outcome.
parse_none == {[ok |-> FALSE, words |-> <<>>], [ok |-> TRUE, words |-> <<>>]}

\* save_frequencies
SaveFrequencies ==
  /\ cmd = "save" /\ pc = "start"
  /\ \E content \in get_page :
       \E parsed \in (IF content.ok THEN {content} ELSE parse_none) :
         /\ log' = <<[op |-> "fetch", page |-> args.page, ok |-> content.ok]>>
                      \o (IF parsed.ok THEN <<[op |-> "parse", words |-> parsed.words]>>
                          ELSE <<>>)
         /\ IF ~parsed.ok
              THEN Fail("TypeError") /\ UNCHANGED files
              ELSE LET counts == Counter(parsed.words)
                       fr == IF args.type = "count"
                               THEN [res |-> "ok", counter |-> counts]
                               ELSE normalize(counts)
                   IN IF fr.res # "ok"
                        THEN Fail(fr.res) /\ UNCHANGED files
                        ELSE /\ files' = [isdir |-> TRUE,
                                          entries |-> (args.page :> fr.counter)
                                                        @@ files.entries]
                             /\ pc' = "done"
                             /\ result' = [kind |-> "saved"]
  /\ UNCHANGED <<cmd, args, page_file, wait, pages, idx, fractions, yielded>>
  /\ UNCHANGED <<tokVars, extVars, distVars>>

Next ==
  \/ SnapFromFile
  \/ SnapFromPages
  \/ GetPagesFirst
  \/ GetPagesSleep
  \/ GetPagesFetch
  \/ GetPagesEnd
  \/ Judge
  \/ SaveFrequencies

Spec == Init /\ [][Next]_vars

(***************************************************************************)
(* Formulas over a command run.                                            *)
(***************************************************************************)
Fetches == SelectSeq(log, LAMBDA e : e.op = "fetch")
Delivered == SelectSeq(Fetches, LAMBDA e : e.ok)
Judged == cmd = "judge" /\ pc = "done" /\ result.kind = "judgement"
Profile(i) == fractions[pages.list[i]]
D1 == page_distance(Profile(1), Profile(2)).sq
D2 == page_distance(Profile(1), Profile(3)).sq

(***************************************************************************)
(* C1. judge reports (anchor, closer, farther) with closer the first-listed*)
(* candidate whenever d1 <= d2, equality included, and the second-listed   *)
(* one only when d1 > d2; farther is the other candidate; judging the same *)
(* inputs again gives the same designation.                                *)
(***************************************************************************)
C1_FirstCandidateOnTie ==
  Judged =>
    /\ result.anchor = pages.list[1]
    /\ LeqQ(D1, D2) =>
         /\ result.ci = 1 /\ result.closer = pages.list[2]
         /\ result.fi = 2 /\ result.farther = pages.list[3]
    /\ ~LeqQ(D1, D2) =>
         /\ result.ci = 2 /\ result.closer = pages.list[3]
         /\ result.fi = 1 /\ result.farther = pages.list[2]
    /\ {result.ci, result.fi} = {1, 2}
    /\ judge(fractions, pages.list).out = result

\* Three different pages were judged, the two candidates at the same
\* non-zero distance from the anchor although their profiles differ.
C1_Witness ==
  /\ Judged
  /\ Cardinality(Range(pages.list)) = 3
  /\ Profile(2) # Profile(3)
  /\ LeqQ(D1, D2) /\ LeqQ(D2, D1) /\ D1.num > 0
  /\ result.closer = pages.list[2]

(***************************************************************************)
(* C3. A judgement requested with fewer than three valid profiles (one of  *)
(* the requested pages fetched as absent, or fewer than three pages given) *)
(* ends in an error surfaced to snap_judgement's caller; no judgement is   *)
(* reported.                                                               *)
(***************************************************************************)
C3_InsufficientInputFails ==
  (/\ cmd = "judge" /\ pc = "done"
   /\ \/ pages.none
      \/ Len(pages.list) < 3
      \/ \E i \in 1..Len(Fetches) : ~Fetches[i].ok)
    => result.kind = "error"

(***************************************************************************)
(* C4. get_pages fetches every page exactly once, in list order, does not  *)
(* stop at an absent page, first or later, and yields (page, content) for  *)
(* exactly the pages whose fetch returned content, in the order requested. *)
(***************************************************************************)
C4_EveryPageFetchedOnce ==
  (cmd = "judge" /\ ~pages.none /\ pc # "start") =>
    /\ Len(Fetches) = idx
    /\ \A i \in 1..idx : Fetches[i].page = pages.list[i]
    /\ Len(yielded) = Len(Delivered)
    /\ \A k \in 1..Len(yielded) : yielded[k][1] = Delivered[k].page
    /\ pc \in {"judge", "done"} => idx = Len(pages.list)

\* A batch of three whose first and last fetch were absent has ended.
C4_Witness ==
  /\ cmd = "judge" /\ pc = "judge"
  /\ Len(pages.list) = 3 /\ Len(Fetches) = 3
  /\ ~Fetches[1].ok /\ Fetches[2].ok /\ ~Fetches[3].ok
  /\ Len(yielded) = 1 /\ yielded[1][1] = pages.list[2]

(***************************************************************************)
(* C5. Normalizing the distribution counted from zero tokens does not      *)
(* divide by zero: no ZeroDivisionError arises, and a page that yields no  *)
(* tokens gets the empty profile, in snap_judgement and save_frequencies.  *)
(***************************************************************************)
LastYield(page) ==
  LET last == CHOOSE k \in 1..Len(yielded) :
                /\ yielded[k][1] = page
                /\ \A j \in (k + 1)..Len(yielded) : yielded[j][1] # page
  IN yielded[last][2]

C5_EmptyProfileNoDivision ==
  /\ result.kind = "error" => result.type # "ZeroDivisionError"
  /\ (cmd = "judge" /\ pc \in {"loop", "fetch", "judge"}) =>
       \A k \in 1..Len(yielded) :
         LET page == yielded[k][1]
         IN /\ page \in DOMAIN fractions
            /\ LastYield(page) = <<>> => DOMAIN fractions[page].cnt = {}
            /\ LastYield(page) # <<>> => DOMAIN fractions[page].cnt # {}
  /\ (cmd = "save" /\ pc = "done" /\ Len(log) = 2) =>
       /\ result.kind = "saved"
       /\ args.page \in DOMAIN files.entries
       /\ log[2].words = <<>> => DOMAIN files.entries[args.page].cnt = {}

\* A page with no tokens was downloaded and profiled, and a judgement
\* was reported.
C5_Witness ==
  /\ Judged
  /\ \E k \in 1..Len(yielded) : yielded[k][2] = <<>>
  /\ \E k \in 1..Len(yielded) : yielded[k][2] # <<>>

(***************************************************************************)
(* C9. judge and page_distance leave their inputs as they were: the        *)
(* frequencies mapping, each profile with its key set (looking up a word a *)
(* profile lacks adds no entry) and the pages list.                        *)
(***************************************************************************)
C9_JudgeLeavesInputs ==
  [][pc = "judge" => (fractions' = fractions /\ pages' = pages)]_vars

\* A judgement was reported where the anchor holds a word a candidate
\* lacks, and a candidate holds a word the anchor lacks.
C9_Witness ==
  /\ Judged
  /\ DOMAIN Profile(1).cnt \ DOMAIN Profile(2).cnt # {}
  /\ DOMAIN Profile(3).cnt \ DOMAIN Profile(1).cnt # {}

(***************************************************************************)
(* C10. get_pages does not wait before the first fetch and waits once, for *)
(* the configured duration, between two consecutive fetches, also after an *)
(* absent one: the log alternates fetch, wait, fetch; n >= 1 pages make n  *)
(* fetches and n - 1 waits; an empty batch makes none and ends without an  *)
(* error of the generator.                                                 *)
(***************************************************************************)
C10_OneWaitBetweenFetches ==
  cmd = "judge" =>
    /\ \A i \in 1..Len(log) :
         IF i % 2 = 1 THEN log[i].op = "fetch"
         ELSE log[i].op = "sleep" /\ log[i].seconds = wait
    /\ pc = "fetch" => (Len(log) % 2 = 0 /\ Len(log) > 0)
    /\ (pc \in {"judge", "done"} /\ ~pages.none /\ pages.list # <<>>) =>
         /\ Len(Fetches) = Len(pages.list)
         /\ Len(log) - Len(Fetches) = Len(pages.list) - 1
    /\ (~pages.none /\ pages.list = <<>> /\ pc # "start") =>
         /\ log = <<>>
         /\ pc \in {"first", "judge", "done"}
         /\ pc = "done" => result = Error("ValueError")

\* A batch of three has ended after five log entries, its first two
\* fetches absent, with a wait of 2 seconds.
C10_Witness ==
  /\ cmd = "judge" /\ pc = "judge" /\ wait = 2
  /\ Len(pages.list) = 3 /\ Len(log) = 5
  /\ ~log[1].ok /\ ~log[3].ok /\ log[5].ok

====
